---- MODULE Spec2Model ----
(***************************************************************************)
(* A model of surveyscout: the assignment optimizer and its relaxation     *)
(* search (SpecSolve), the assignment postprocessor (SpecTable), the       *)
(* cost-matrix providers (SpecCost) and the request tiling of the Google   *)
(* provider (SpecTile).  Each specification starts from the inputs of the  *)
(* calls it models and leaves the rest of the state idle.                  *)
(*                                                                         *)
(* Numbers.  The Python code computes with floats.  The model keeps the    *)
(* constraint parameters as exact rationals: the four numerators share the *)
(* denominator `den`, which starts at 1 and is multiplied by 100 on every  *)
(* retry of the relaxation search.  Costs are small naturals.              *)
(***************************************************************************)
EXTENDS Integers, Sequences, FiniteSets, TLC

(***************************************************************************)
(* Bounds of the model.                                                    *)
(***************************************************************************)
NTarget == 2
NEnum == 2
MaxCostVal == 2
MaxRetries == 2

\* param_increment=5, the default of recursive_min_target_optimization
DEFAULT_PARAM_INCREMENT == 5

Targets == 1..NTarget
Enums == 1..NEnum
CostValues == 0..MaxCostVal

\* Python's None, and the empty dict returned with it: values with no entries
None == <<>>
NoParams == <<>>

\* what a call that raises leaves in place of its result
Raised == [raised |-> TRUE]

RECURSIVE SumTo(_, _)
\* sum(f[k] for k in range(n)), Python's builtin sum over a generator
SumTo(f, n) == IF n = 0 THEN 0 ELSE f[n] + SumTo(f, n - 1)

(***************************************************************************)
(* optimization/tasks/models.py: min_target_optimization_model             *)
(***************************************************************************)
\* x[i, j] = solver.BoolVar(...): one binary decision variable per cell
BoolVars == [Targets -> [Enums -> {0, 1}]]

RowConstraintAtMostOne(x) ==
    \A i \in Targets : SumTo([j \in Enums |-> x[i][j]], NEnum) <= 1

\* sum(x[i, j] for j in range(n_enum)) == 1
RowConstraint(x) ==
    \A i \in Targets : SumTo([j \in Enums |-> x[i][j]], NEnum) = 1

MinTargetConstraintOnRows(x, p) ==
    \A i \in Targets :
        SumTo([j \in Enums |-> x[i][j]], NEnum) * p.den >= p.min_target

\* sum(x[i, j] for i in range(n_target)) >= min_target
MinTargetConstraint(x, p) ==
    \A j \in Enums :
        SumTo([i \in Targets |-> x[i][j]], NTarget) * p.den >= p.min_target

\* sum(x[i, j] for i in range(n_target)) <= max_target
MaxTargetConstraint(x, p) ==
    \A j \in Enums :
        SumTo([i \in Targets |-> x[i][j]], NTarget) * p.den <= p.max_target

\* sum(cost_matrix[i, j] * x[i, j] for i in range(n_target)) <= max_total_cost
TotalCostConstraint(x, cm, p) ==
    \A j \in Enums :
        SumTo([i \in Targets |-> cm[i][j] * x[i][j]], NTarget) * p.den
            <= p.max_total_cost

CellCostConstraintTotalCap(x, cm, p) ==
    \A i \in Targets : \A j \in Enums :
        cm[i][j] * x[i][j] * p.den <= p.max_total_cost

\* cost_matrix[i, j] * x[i, j] <= max_cost, added for every cell
CellCostConstraint(x, cm, p) ==
    \A i \in Targets : \A j \in Enums :
        cm[i][j] * x[i][j] * p.den <= p.max_cost

ObjectiveUnweighted(x, cm) ==
    SumTo([i \in Targets |->
              SumTo([j \in Enums |-> x[i][j]], NEnum)], NTarget)

\* the objective handed to solver.Minimize
Objective(x, cm) ==
    SumTo([i \in Targets |->
              SumTo([j \in Enums |-> cm[i][j] * x[i][j]], NEnum)], NTarget)

\* every solver.Add of the function, together
Constraints(x, cm, p) ==
    /\ RowConstraint(x)
    /\ MinTargetConstraint(x, p)
    /\ MaxTargetConstraint(x, p)
    /\ TotalCostConstraint(x, cm, p)
    /\ CellCostConstraint(x, cm, p)

\* solver.Solve() with status OPTIMAL: the assignments that satisfy every
\* added constraint and minimise the objective (the solver may return any)
SolverOptimal(cm, p) ==
    LET feasible == {x \in BoolVars : Constraints(x, cm, p)}
    IN  {x \in feasible :
            \A y \in feasible : Objective(x, cm) <= Objective(y, cm)}

\* the values the function can return: a solution matrix, or None when the
\* status is not OPTIMAL
min_target_optimization_model(cm, p) ==
    LET optimal == SolverOptimal(cm, p)
    IN  IF optimal = {} THEN {None} ELSE optimal

(***************************************************************************)
(* State.                                                                  *)
(***************************************************************************)
VARIABLES
    pc,               \* position of the call being modelled
    mode,             \* which entry point was called
    cost_matrix,      \* the cost matrix argument
    params,           \* min_target, max_target, max_cost, max_total_cost
    param_increment,  \* the increment percentage of the current invocation
    attempts,         \* parameter sets handed to the solver so far
    result,           \* the returned matrix or None
    ret_params,       \* the returned parameter dict
    enum_locations,   \* LocationDataset of the enumerators: rows of id, lat
    target_locations, \* LocationDataset of the targets: rows of id, lat
    assignment_matrix,\* the assignment matrix given to the postprocessor
    table,            \* the assignment table it returns
    provider,         \* the cost-matrix provider that was called
    provider_faults,  \* whether the external provider may answer non-OK
    value,            \* Google: the value argument, "duration" or "distance"
    matrix_df,        \* the cost matrix DataFrame a provider returns
    pending,          \* async OSRM: targets whose request has not completed
    rows,             \* async OSRM: the result slot of each target's task
    request_queue,    \* Google: request blocks not yet issued
    requests,         \* Google: request blocks issued so far
    responses,        \* Google: the response received to each request
    parsed_dfs,       \* Google: the parsed frame of each issued request
    latency,          \* Google: ticks the service takes to answer a request
    clock,            \* Google: ticks elapsed since the provider was called
    sent_at,          \* Google: the tick at which each request was submitted
    completed,        \* async OSRM: the targets in the order of completion
    flow,             \* the planning flow (or validation) that was called
    flow_pc,          \* position of the flow
    flow_args,        \* the flow's arguments other than the location sets
    flow_result,      \* what the flow returned, or Raised
    assignment_df,    \* add_visit_order: the assignment table it is given
    trip_pending,     \* the enumerators whose trip request has not completed
    trip_responses,   \* the trip response each enumerator's task received
    trip_completed,   \* the enumerators in the order of completion
    visit_ranks,      \* the frame each enumerator's task returned
    visit_plan        \* what add_visit_order returned, or Raised

solveVars == <<mode, cost_matrix, params, param_increment, attempts, result,
               ret_params>>

locVars == <<enum_locations, target_locations>>

tableVars == <<assignment_matrix, table>>

costVars == <<provider, provider_faults, value, matrix_df, pending, rows,
              request_queue, requests, parsed_dfs, latency, clock, sent_at,
              completed, responses>>

flowVars == <<flow, flow_pc, flow_args, flow_result>>

rankVars == <<assignment_df, trip_pending, trip_responses, trip_completed,
              visit_ranks, visit_plan>>

vars == <<pc, solveVars, locVars, tableVars, costVars, flowVars, rankVars>>

\* what the optimizer does not touch
notSolveVars == <<locVars, tableVars, costVars, flowVars, rankVars>>

\* the parts of the state a call does not use
SolveIdle ==
    /\ mode = ""
    /\ params = NoParams
    /\ param_increment = DEFAULT_PARAM_INCREMENT
    /\ attempts = <<>>
    /\ result = None
    /\ ret_params = NoParams

LocIdle == enum_locations = <<>> /\ target_locations = <<>>

TableIdle == assignment_matrix = None /\ table = <<>>

CostIdle ==
    /\ provider = ""
    /\ provider_faults = FALSE
    /\ value = "duration"
    /\ matrix_df = None
    /\ pending = {}
    /\ rows = <<>>
    /\ request_queue = <<>>
    /\ requests = <<>>
    /\ parsed_dfs = <<>>
    /\ latency = 0
    /\ clock = 0
    /\ sent_at = <<>>
    /\ completed = <<>>
    /\ responses = <<>>

FlowIdle ==
    /\ flow = ""
    /\ flow_pc = ""
    /\ flow_args = <<>>
    /\ flow_result = None

RankIdle ==
    /\ assignment_df = <<>>
    /\ trip_pending = {}
    /\ trip_responses = <<>>
    /\ trip_completed = <<>>
    /\ visit_ranks = <<>>
    /\ visit_plan = None

(***************************************************************************)
(* Inputs of the optimizer.                                                *)
(***************************************************************************)
CostMatrices == [Targets -> [Enums -> CostValues]]
MinTargets == 0..NEnum
MaxTargets == 1..NTarget
MaxCosts == CostValues
MaxTotalCosts == {MaxCostVal, 2 * MaxCostVal}
ParamIncrements == {0, DEFAULT_PARAM_INCREMENT, 50, 100}

ParamSets ==
    {[min_target |-> a, max_target |-> b, max_cost |-> c,
      max_total_cost |-> d, den |-> 1] :
        a \in MinTargets, b \in MaxTargets, c \in MaxCosts,
        d \in MaxTotalCosts}

InitSolve ==
    /\ pc = "call"
    /\ mode \in {"min_target_optimization_model",
                 "recursive_min_target_optimization"}
    /\ cost_matrix \in CostMatrices
    /\ params \in ParamSets
    /\ param_increment \in
          IF mode = "recursive_min_target_optimization"
          THEN ParamIncrements ELSE {DEFAULT_PARAM_INCREMENT}
    /\ attempts = <<>>
    /\ result = None
    /\ ret_params = NoParams
    /\ LocIdle
    /\ TableIdle
    /\ CostIdle
    /\ FlowIdle
    /\ RankIdle

\* a direct call of min_target_optimization_model
CallModel ==
    /\ pc = "call"
    /\ mode = "min_target_optimization_model"
    /\ \E r \in min_target_optimization_model(cost_matrix, params) :
          result' = r
    /\ attempts' = Append(attempts, params)
    /\ pc' = "done"
    /\ UNCHANGED <<mode, cost_matrix, params, param_increment, ret_params>>
    /\ UNCHANGED notSolveVars

(***************************************************************************)
(* optimization/tasks/models.py: recursive_min_target_optimization.  One   *)
(* action per outcome of one invocation.                                   *)
(***************************************************************************)
RelaxedParamsTightening(p, inc) ==
    [min_target     |-> p.min_target * (100 + inc),
     max_target     |-> p.max_target * (100 - inc),
     max_cost       |-> p.max_cost * (100 - inc),
     max_total_cost |-> p.max_total_cost * (100 - inc),
     den            |-> p.den * 100]

\* the keyword arguments of the recursive call
RelaxedParams(p, inc) ==
    [min_target     |-> p.min_target * (100 - inc),
     max_target     |-> p.max_target * (100 + inc),
     max_cost       |-> p.max_cost * (100 + inc),
     max_total_cost |-> p.max_total_cost * (100 + inc),
     den            |-> p.den * 100]

RecursiveSolvedReturnsFirstParams ==
    /\ pc = "call"
    /\ mode = "recursive_min_target_optimization"
    /\ \E r \in min_target_optimization_model(cost_matrix, params) :
          /\ r # None
          /\ result' = r
    /\ ret_params' = Append(attempts, params)[1]
    /\ attempts' = Append(attempts, params)
    /\ pc' = "done"
    /\ UNCHANGED <<mode, cost_matrix, params, param_increment>>
    /\ UNCHANGED notSolveVars

\* result is not None: return result, params
RecursiveSolved ==
    /\ pc = "call"
    /\ mode = "recursive_min_target_optimization"
    /\ \E r \in min_target_optimization_model(cost_matrix, params) :
          /\ r # None
          /\ result' = r
    /\ ret_params' = params
    /\ attempts' = Append(attempts, params)
    /\ pc' = "done"
    /\ UNCHANGED <<mode, cost_matrix, params, param_increment>>
    /\ UNCHANGED notSolveVars

\* elif min_target > 0: the recursive call, which passes no param_increment,
\* so the callee runs with the default
RecursiveRetry ==
    /\ pc = "call"
    /\ mode = "recursive_min_target_optimization"
    /\ min_target_optimization_model(cost_matrix, params) = {None}
    /\ params.min_target > 0
    /\ Len(attempts) < MaxRetries
    /\ params' = RelaxedParams(params, param_increment)
    /\ param_increment' = DEFAULT_PARAM_INCREMENT
    /\ attempts' = Append(attempts, params)
    /\ UNCHANGED <<pc, mode, cost_matrix, result, ret_params>>
    /\ UNCHANGED notSolveVars

RecursiveExhaustedReturnsParams ==
    /\ pc = "call"
    /\ mode = "recursive_min_target_optimization"
    /\ min_target_optimization_model(cost_matrix, params) = {None}
    /\ ~(params.min_target > 0)
    /\ result' = None
    /\ ret_params' = params
    /\ attempts' = Append(attempts, params)
    /\ pc' = "done"
    /\ UNCHANGED <<mode, cost_matrix, params, param_increment>>
    /\ UNCHANGED notSolveVars

\* else: return None, dict({})
RecursiveExhausted ==
    /\ pc = "call"
    /\ mode = "recursive_min_target_optimization"
    /\ min_target_optimization_model(cost_matrix, params) = {None}
    /\ ~(params.min_target > 0)
    /\ result' = None
    /\ ret_params' = NoParams
    /\ attempts' = Append(attempts, params)
    /\ pc' = "done"
    /\ UNCHANGED <<mode, cost_matrix, params, param_increment>>
    /\ UNCHANGED notSolveVars

\* no later attempt can be feasible: some target costs more than zero from
\* every enumerator and max_cost or max_total_cost is 0, which every retry
\* scales to 0 again
NeverFeasible(cm, p) ==
    /\ p.max_cost = 0 \/ p.max_total_cost = 0
    /\ \E i \in Targets : \A j \in Enums : cm[i][j] > 0

\* min_target stays above 0 on every later retry: it is positive and it is
\* multiplied by 1 - inc/100 > 0 now and by 0.95 afterwards
NeverExhausted(p, inc) == p.min_target > 0 /\ inc < 100

\* elif min_target > 0, again and again: where neither a solution nor
\* min_target = 0 can ever come, the retries beyond MaxRetries are taken in
\* one step, up to the recursive call that exceeds the recursion limit of
\* the interpreter and raises RecursionError through every invocation
RecursionLimitExceeded ==
    /\ pc = "call"
    /\ mode = "recursive_min_target_optimization"
    /\ min_target_optimization_model(cost_matrix, params) = {None}
    /\ Len(attempts) >= MaxRetries
    /\ NeverExhausted(params, param_increment)
    /\ NeverFeasible(cost_matrix, params)
    /\ result' = Raised
    /\ ret_params' = NoParams
    /\ attempts' = Append(attempts, params)
    /\ pc' = "done"
    /\ UNCHANGED <<mode, cost_matrix, params, param_increment>>
    /\ UNCHANGED notSolveVars

NextSolve ==
    \/ CallModel
    \/ RecursiveSolved
    \/ RecursiveRetry
    \/ RecursiveExhausted
    \/ RecursionLimitExceeded

SpecSolve == InitSolve /\ [][NextSolve]_vars

(***************************************************************************)
(* Properties of the optimizer.                                            *)
(***************************************************************************)
RECURSIVE SumOver(_, _)
SumOver(S, f) ==
    IF S = {} THEN 0
    ELSE LET k == CHOOSE k \in S : TRUE IN f[k] + SumOver(S \ {k}, f)

\* the targets assigned to enumerator j in matrix m
AssignedTo(m, j) == {i \in Targets : m[i][j] = 1}

\* the sum of the costs of the targets assigned to enumerator j
AssignedCost(m, cm, j) ==
    SumOver(AssignedTo(m, j), [i \in Targets |-> cm[i][j]])

TotalAssignedCost(m, cm) ==
    SumOver(Enums, [j \in Enums |-> AssignedCost(m, cm, j)])

Returned == pc = "done" /\ result # None /\ result # Raised

\* C1: every returned assignment matrix is a 0/1 matrix in which each
\* target's row has exactly one 1 (the target has exactly one enumerator).
EachTargetHasExactlyOneEnum ==
    Returned =>
        \A i \in Targets :
            /\ \A j \in Enums : result[i][j] \in {0, 1}
            /\ Cardinality({j \in Enums : result[i][j] = 1}) = 1

\* a matrix returned by the relaxation search after at least one retry
WitnessEachTargetHasExactlyOneEnum ==
    /\ Returned
    /\ mode = "recursive_min_target_optimization"
    /\ Len(attempts) > 1

\* C2: in every returned matrix each enumerator's number of assigned targets
\* is at least min_target and at most max_target of the call that returned it.
TargetConstraintsAreMet ==
    Returned =>
        \A j \in Enums :
            /\ Cardinality(AssignedTo(result, j)) * params.den
                  >= params.min_target
            /\ Cardinality(AssignedTo(result, j)) * params.den
                  <= params.max_target

\* a matrix returned under a positive min_target and a max_target below the
\* number of targets
WitnessTargetConstraintsAreMet ==
    /\ Returned
    /\ mode = "min_target_optimization_model"
    /\ params.min_target > 0
    /\ params.max_target < NTarget

\* C3: in every returned matrix each assigned pair costs at most max_cost and
\* each enumerator's assigned costs sum to at most max_total_cost.
CostConstraintsAreMet ==
    Returned =>
        /\ \A i \in Targets : \A j \in Enums :
              result[i][j] = 1 => cost_matrix[i][j] * params.den
                                      <= params.max_cost
        /\ \A j \in Enums :
              AssignedCost(result, cost_matrix, j) * params.den
                  <= params.max_total_cost

\* a matrix returned although some cell of the cost matrix exceeds max_cost
WitnessCostConstraintsAreMet ==
    /\ Returned
    /\ mode = "min_target_optimization_model"
    /\ \E i \in Targets : \E j \in Enums :
          cost_matrix[i][j] * params.den > params.max_cost

\* the four constraints of the formulation, on a 0/1 matrix m
SatisfiesFourConstraints(m, cm, p) ==
    /\ \A i \in Targets : Cardinality({j \in Enums : m[i][j] = 1}) = 1
    /\ \A j \in Enums :
          /\ Cardinality(AssignedTo(m, j)) * p.den >= p.min_target
          /\ Cardinality(AssignedTo(m, j)) * p.den <= p.max_target
    /\ \A i \in Targets : \A j \in Enums :
          m[i][j] = 1 => cm[i][j] * p.den <= p.max_cost
    /\ \A j \in Enums : AssignedCost(m, cm, j) * p.den <= p.max_total_cost

FourConstraintMatrices(cm, p) ==
    {m \in [Targets -> [Enums -> {0, 1}]] : SatisfiesFourConstraints(m, cm, p)}

\* C4: a returned matrix has minimal total assigned cost among the 0/1
\* matrices that satisfy the four constraints, and None is returned exactly
\* when no 0/1 matrix satisfies them.
ReturnsOptimumOrNone ==
    (pc = "done" /\ result # Raised) =>
        LET candidates == FourConstraintMatrices(cost_matrix, params)
        IN  IF result = None
            THEN candidates = {}
            ELSE /\ result \in candidates
                 /\ \A m \in candidates :
                       TotalAssignedCost(result, cost_matrix)
                           <= TotalAssignedCost(m, cost_matrix)

\* a returned matrix that is strictly cheaper than another candidate
WitnessReturnsOptimumOrNone ==
    /\ Returned
    /\ mode = "min_target_optimization_model"
    /\ \E m \in FourConstraintMatrices(cost_matrix, params) :
          TotalAssignedCost(result, cost_matrix)
              < TotalAssignedCost(m, cost_matrix)

(***************************************************************************)
(* surveyscout/utils.py: LocationDataset.  A dataset is the sequence of    *)
(* its rows; a row has an id and a latitude in degrees (the modelled       *)
(* locations lie on one meridian).                                         *)
(***************************************************************************)
get_ids(locations) == [k \in 1..Len(locations) |-> locations[k].id]

get_gps_coords(locations) == [k \in 1..Len(locations) |-> locations[k].lat]

\* the orders in which n unique ids 1..n can appear in a dataset
IdOrders(n) == {s \in [1..n -> 1..n] : \A a, b \in 1..n : s[a] = s[b] => a = b}

\* where the enumerator and the target of an id are: pairwise different
\* distances between enumerators and targets
EnumLat(id) == id
TargetLat(id) == id * (NEnum + 1)

EnumLocationSets ==
    {[k \in 1..NEnum |-> [id |-> ids[k], lat |-> EnumLat(ids[k])]] :
        ids \in IdOrders(NEnum)}

TargetLocationSets ==
    {[k \in 1..NTarget |-> [id |-> ids[k], lat |-> TargetLat(ids[k])]] :
        ids \in IdOrders(NTarget)}

(***************************************************************************)
(* surveyscout/tasks/postprocessing.py: convert_assignment_matrix_to_table *)
(***************************************************************************)
\* assigned_cost_matrix = assignment_matrix.copy(), multiplied in place by
\* the cost matrix when one is given
AssignedCostMatrixNoProduct(am, cm) == am

AssignedCostMatrix(am, cm) ==
    IF cm # None
    THEN [i \in Targets |-> [j \in Enums |-> am[i][j] * cm[i][j]]]
    ELSE am

\* DataFrame.stack(): one entry per cell, row by row, under the labels of
\* its row and its column
Stack(values, index, columns) ==
    [k \in 1..(Len(index) * Len(columns)) |->
        LET i == ((k - 1) \div Len(columns)) + 1
            j == ((k - 1) % Len(columns)) + 1
        IN  [target_id |-> index[i], enum_id |-> columns[j],
             cost |-> values[i][j]]]

IsPositive(entry) == entry.cost > 0

convert_assignment_matrix_to_table(am, enum_locs, target_locs, cm) ==
    LET stacked == Stack(AssignedCostMatrix(am, cm), get_ids(target_locs),
                         get_ids(enum_locs))
    IN  SelectSeq(stacked, IsPositive)

\* the assignment matrices of the postprocessor's contract: 0/1 matrices
\* whose rows each sum to 1
AssignmentMatrices ==
    {m \in [Targets -> [Enums -> {0, 1}]] :
        \A i \in Targets : SumTo([j \in Enums |-> m[i][j]], NEnum) = 1}

InitTable ==
    /\ pc = "call"
    /\ assignment_matrix \in AssignmentMatrices
    /\ cost_matrix \in CostMatrices \cup {None}
    /\ enum_locations \in EnumLocationSets
    /\ target_locations \in TargetLocationSets
    /\ table = <<>>
    /\ SolveIdle
    /\ CostIdle
    /\ FlowIdle
    /\ RankIdle

ConvertAssignmentMatrixToTable ==
    /\ pc = "call"
    /\ table' = convert_assignment_matrix_to_table(
                    assignment_matrix, enum_locations, target_locations,
                    cost_matrix)
    /\ pc' = "done"
    /\ UNCHANGED <<solveVars, locVars, costVars, flowVars, rankVars,
                   assignment_matrix>>

NextTable == ConvertAssignmentMatrixToTable

SpecTable == InitTable /\ [][NextTable]_vars

(***************************************************************************)
(* Properties of the postprocessor.                                        *)
(***************************************************************************)
\* the (target_id, enum_id) pairs of the 1-entries of the assignment matrix
OneEntries ==
    {<<target_locations[i].id, enum_locations[j].id>> :
        <<i, j>> \in {c \in Targets \X Enums :
                        assignment_matrix[c[1]][c[2]] = 1}}

TablePairs == {<<table[k].target_id, table[k].enum_id>> : k \in 1..Len(table)}

\* the position of an id in a dataset
IndexOfId(locations, id) ==
    CHOOSE k \in 1..Len(locations) : locations[k].id = id

\* C5: the table has exactly one row per target and its (target_id, enum_id)
\* pairs are exactly the 1-entries of the matrix, zero costs included.
TableReproducesOneEntries ==
    pc = "done" =>
        /\ Len(table) = NTarget
        /\ Cardinality(TablePairs) = Len(table)
        /\ TablePairs = OneEntries

NaN == -1

Abs(a) == IF a < 0 THEN 0 - a ELSE a

Max(S) == CHOOSE m \in S : \A k \in S : k <= m

DataFrame(values, index, columns) ==
    [index |-> index, columns |-> columns, values |-> values]

\* pd.DataFrame(matrix, index=..., columns=...) on a list of rows: short rows
\* are padded with NaN to the longest one, and the call raises when the
\* longest row has not one entry per column label
DataFrameFromRows(matrix, index, columns) ==
    LET width == Max({Len(matrix[i]) : i \in 1..Len(matrix)} \cup {0})
    IN  IF width # Len(columns)
        THEN Raised
        ELSE DataFrame(
                 [i \in 1..Len(matrix) |->
                     [j \in 1..width |->
                         IF j <= Len(matrix[i]) THEN matrix[i][j] ELSE NaN]],
                 index, columns)

(***************************************************************************)
(* surveyscout/tasks/compute_cost/haversine.py                             *)
(***************************************************************************)
\* the great-circle distance of two points of one meridian
haversine(lat1, lat2) == Abs(lat2 - lat1)

\* np.meshgrid(targets, enums, indexing="ij"): cell (i, j) pairs target i
\* with enumerator j
get_enum_target_haversine_matrix(enum_locs, target_locs) ==
    LET targets_lat == get_gps_coords(target_locs)
        enums_lat == get_gps_coords(enum_locs)
    IN  DataFrame(
            [i \in 1..Len(targets_lat) |->
                [j \in 1..Len(enums_lat) |->
                    haversine(targets_lat[i], enums_lat[j])]],
            get_ids(target_locs), get_ids(enum_locs))

(***************************************************************************)
(* surveyscout/tasks/compute_cost/osrm.py                                  *)
(***************************************************************************)
\* the driving distance in metres that the OSRM table service knows
OsrmMetres(lat1, lat2) == 2000 * Abs(lat2 - lat1)

\* the answers the service can give to a table request with sources=0: the
\* distances from the first coordinate to every coordinate of the request,
\* or a body without distances
OsrmTableResponses(coords, faults) ==
    {[has_distances |-> TRUE,
      distances |-> [k \in 1..Len(coords) |-> OsrmMetres(coords[1], coords[k])]]}
    \cup (IF faults THEN {[has_distances |-> FALSE, distances |-> <<>>]}
          ELSE {})

\* coords = np.insert(enum_coords, 0, target_coord, axis=0)
OsrmRequestCoords(target_coord, enum_coords) == <<target_coord>> \o enum_coords

\* the row read from a response: distances[0][1:] / 1000, or []
OsrmRowFromResponse(response) ==
    IF response.has_distances
    THEN [k \in 1..(Len(response.distances) - 1) |->
             response.distances[k + 1] \div 1000]
    ELSE <<>>

\* the rows _get_unique_target_enum_row_osrm can return for one target
OsrmRows(target_coord, enum_coords, faults) ==
    {OsrmRowFromResponse(r) :
        r \in OsrmTableResponses(
                  OsrmRequestCoords(target_coord, enum_coords), faults)}

\* _get_enum_target_matrix_osrm: one row per target, in target order
OsrmMatrices(target_coords, enum_coords, faults) ==
    {m \in [1..Len(target_coords) ->
               UNION {OsrmRows(target_coords[i], enum_coords, faults) :
                         i \in 1..Len(target_coords)}] :
        \A i \in 1..Len(target_coords) :
            m[i] \in OsrmRows(target_coords[i], enum_coords, faults)}

Providers == {"haversine", "osrm", "osrm_async", "google"}

\* Time is counted in ticks of 50 ms.  requests.request blocks until the
\* service has answered: a fast network answers in one tick, a slow one in
\* four; the time the program itself takes between requests is negligible.
TicksPerSecond == 20
Latencies == {1, 4}

InitCost ==
    /\ pc = "call"
    /\ provider \in Providers
    /\ provider_faults = TRUE
    /\ value \in IF provider = "google" THEN {"duration", "distance"}
                ELSE {"duration"}
    /\ enum_locations \in EnumLocationSets
    /\ target_locations \in TargetLocationSets
    /\ matrix_df = None
    /\ pending = {}
    /\ rows = <<>>
    /\ request_queue = <<>>
    /\ requests = <<>>
    /\ parsed_dfs = <<>>
    /\ latency \in IF provider = "google" THEN Latencies ELSE {0}
    /\ clock = 0
    /\ sent_at = <<>>
    /\ completed = <<>>
    /\ responses = <<>>
    /\ cost_matrix = None
    /\ SolveIdle
    /\ TableIdle
    /\ FlowIdle
    /\ RankIdle

notCostVars == <<solveVars, locVars, tableVars, flowVars, rankVars>>

Haversine ==
    /\ pc = "call"
    /\ provider = "haversine"
    /\ matrix_df' = get_enum_target_haversine_matrix(
                        enum_locations, target_locations)
    /\ pc' = "done"
    /\ UNCHANGED <<provider, provider_faults, value, latency, pending, rows, request_queue,
                   requests, parsed_dfs>>
    /\ UNCHANGED <<clock, sent_at, completed, responses>>
    /\ UNCHANGED notCostVars

\* get_enum_target_osrm_matrix: the requests are made one after the other
Osrm ==
    /\ pc = "call"
    /\ provider = "osrm"
    /\ \E matrix \in OsrmMatrices(get_gps_coords(target_locations),
                                  get_gps_coords(enum_locations),
                                  provider_faults) :
          matrix_df' = DataFrameFromRows(matrix, get_ids(target_locations),
                                         get_ids(enum_locations))
    /\ pc' = "done"
    /\ UNCHANGED <<provider, provider_faults, value, latency, pending, rows, request_queue,
                   requests, parsed_dfs>>
    /\ UNCHANGED <<clock, sent_at, completed, responses>>
    /\ UNCHANGED notCostVars

\* get_enum_target_osrm_matrix_async: _gather_matrix creates one task per
\* target, each with its own result slot
OsrmAsyncStart ==
    /\ pc = "call"
    /\ provider = "osrm_async"
    /\ pending' = 1..Len(target_locations)
    /\ rows' = [i \in 1..Len(target_locations) |-> <<>>]
    /\ pc' = "gather"
    /\ UNCHANGED <<provider, provider_faults, value, latency, matrix_df, request_queue,
                   requests, parsed_dfs>>
    /\ UNCHANGED <<clock, sent_at, completed, responses>>
    /\ UNCHANGED notCostVars

\* the request of one task completes, in any order among the tasks
OsrmAsyncComplete ==
    /\ pc = "gather"
    /\ \E i \in pending :
          /\ \E row \in OsrmRows(get_gps_coords(target_locations)[i],
                                 get_gps_coords(enum_locations),
                                 provider_faults) :
                rows' = [rows EXCEPT ![i] = row]
          /\ pending' = pending \ {i}
          /\ completed' = Append(completed, i)
    /\ UNCHANGED <<pc, provider, provider_faults, value, latency, matrix_df, request_queue,
                   requests, parsed_dfs>>
    /\ UNCHANGED <<clock, sent_at, responses>>
    /\ UNCHANGED notCostVars

OsrmAsyncGatheredInCompletionOrder ==
    /\ pc = "gather"
    /\ pending = {}
    /\ matrix_df' = DataFrameFromRows(
                        [k \in 1..Len(completed) |-> rows[completed[k]]],
                        get_ids(target_locations), get_ids(enum_locations))
    /\ pc' = "done"
    /\ UNCHANGED <<provider, provider_faults, value, latency, pending, rows,
                   request_queue, requests, parsed_dfs>>
    /\ UNCHANGED <<clock, sent_at, completed, responses>>
    /\ UNCHANGED notCostVars

\* asyncio.gather returns the results in task order once all are done
OsrmAsyncGathered ==
    /\ pc = "gather"
    /\ pending = {}
    /\ matrix_df' = DataFrameFromRows(rows, get_ids(target_locations),
                                      get_ids(enum_locations))
    /\ pc' = "done"
    /\ UNCHANGED <<provider, provider_faults, value, latency, pending, rows, request_queue,
                   requests, parsed_dfs>>
    /\ UNCHANGED <<clock, sent_at, completed, responses>>
    /\ UNCHANGED notCostVars

(***************************************************************************)
(* surveyscout/tasks/compute_cost/google_distance_matrix.py                *)
(***************************************************************************)
MAX_DEST == 25
MAX_ELEMENTS_PER_REQUEST == 100
MAX_ORIG == MAX_ELEMENTS_PER_REQUEST \div MAX_DEST
MAX_ELEMENTS_PER_SECOND == 1000

\* int(np.ceil(a / b))
CeilDiv(a, b) == (a + b - 1) \div b

FloorDiv(a, b) == a \div b

Min2(a, b) == IF a < b THEN a ELSE b

\* np.arange(n)[lo:hi], as positions counted from 1
ArangeSlice(n, lo, hi) ==
    IF lo >= n THEN <<>> ELSE [k \in 1..(Min2(hi, n) - lo) |-> lo + k]

\* itertools.product(a, b): every pair, the first component varying slowest
Product(a, b) ==
    [k \in 1..(Len(a) * Len(b)) |->
        [orig_idx |-> a[((k - 1) \div Len(b)) + 1],
         dest_idx |-> b[((k - 1) % Len(b)) + 1]]]

\* the product of the origin slices and the destination slices, for group
\* counts go, gd and slice sizes so, sd
RequestPairs(n_orig, n_dest, go, gd, so, sd) ==
    Product([i \in 1..go |-> ArangeSlice(n_orig, (i - 1) * so, i * so)],
            [j \in 1..gd |-> ArangeSlice(n_dest, (j - 1) * sd, j * sd)])

generate_request_pairs_floor_groups(n_orig, n_dest) ==
    RequestPairs(n_orig, n_dest, FloorDiv(n_orig, MAX_ORIG),
                 FloorDiv(n_dest, MAX_DEST), MAX_ORIG, MAX_DEST)

generate_request_pairs_swapped_sizes(n_orig, n_dest) ==
    RequestPairs(n_orig, n_dest, CeilDiv(n_orig, MAX_DEST),
                 CeilDiv(n_dest, MAX_ORIG), MAX_DEST, MAX_ORIG)

generate_google_enum_target_request_pairs(n_orig, n_dest) ==
    RequestPairs(n_orig, n_dest, CeilDiv(n_orig, MAX_ORIG),
                 CeilDiv(n_dest, MAX_DEST), MAX_ORIG, MAX_DEST)

\* a[idx] for an index array idx
Take(a, idx) == [k \in 1..Len(idx) |-> a[idx[k]]]

\* what the distance matrix service knows about an origin and a destination
GoogleDistance(orig, dest) == 2000 * Abs(dest - orig)
GoogleDuration(orig, dest) == 60 * Abs(dest - orig)

GoogleElement(orig, dest, ok) ==
    IF ok
    THEN [status |-> "OK", distance |-> GoogleDistance(orig, dest),
          duration |-> GoogleDuration(orig, dest)]
    ELSE [status |-> "NOT_FOUND", distance |-> NaN, duration |-> NaN]

\* the answers the service can give to one request: a row per origin with an
\* element per destination, each element with its own status, or a non-OK
\* status for the whole response
GoogleResponses(origin_coords, destination_coords, faults) ==
    LET cells == (1..Len(origin_coords)) \X (1..Len(destination_coords))
        failing == IF faults THEN SUBSET cells ELSE {{}}
    IN  {[status |-> "OK",
          rows |-> [i \in 1..Len(origin_coords) |->
                      [j \in 1..Len(destination_coords) |->
                          GoogleElement(origin_coords[i],
                                        destination_coords[j],
                                        <<i, j>> \notin bad)]]] :
            bad \in failing}
        \cup (IF faults
              THEN {[status |-> "OVER_QUERY_LIMIT", rows |-> <<>>]}
              ELSE {})

\* the three limit assertions of _get_google_distance_matrix
RequestWithinLimits(origin_coords, destination_coords) ==
    /\ Len(origin_coords) <= MAX_ORIG
    /\ Len(destination_coords) <= MAX_DEST
    /\ Len(origin_coords) * Len(destination_coords)
           <= MAX_ELEMENTS_PER_REQUEST

\* _parse_google_distance_matrix_response: the frame of one response.  A
\* frame is its rows and whether it has the orig_id and dest_id columns.
ParsedRow(response, orig_ids, dest_ids, k) ==
    LET i == ((k - 1) \div Len(dest_ids)) + 1
        j == ((k - 1) % Len(dest_ids)) + 1
        el == response.rows[i][j]
    IN  [orig_id |-> orig_ids[i], dest_id |-> dest_ids[j],
         distance |-> IF el.status # "OK" THEN NaN ELSE el.distance,
         duration |-> IF el.status # "OK" THEN NaN ELSE el.duration]

\* A response that is not OK gives one all-NaN row per declared pair and no
\* id columns.  In an OK response, the warning for an element that is not OK
\* reads row['status'], a key the rows of a response do not have: KeyError.
parse_google_distance_matrix_response(response, orig_ids, dest_ids) ==
    IF response.status # "OK"
    THEN [has_ids |-> FALSE,
          rows |-> [k \in 1..(Len(orig_ids) * Len(dest_ids)) |->
                       [orig_id |-> NaN, dest_id |-> NaN,
                        distance |-> NaN, duration |-> NaN]]]
    ELSE IF \E i \in 1..Len(orig_ids) : \E j \in 1..Len(dest_ids) :
                response.rows[i][j].status # "OK"
    THEN Raised
    ELSE [has_ids |-> TRUE,
          rows |-> [k \in 1..(Len(orig_ids) * Len(dest_ids)) |->
                       ParsedRow(response, orig_ids, dest_ids, k)]]

RECURSIVE ConcatRows(_)
\* pd.concat(parsed_dfs): the rows of the frames, one frame after the other;
\* a column a frame lacks is NaN in its rows
ConcatRows(dfs) ==
    IF dfs = <<>> THEN <<>> ELSE dfs[1].rows \o ConcatRows(Tail(dfs))

Concat(dfs) ==
    [has_ids |-> \E k \in 1..Len(dfs) : dfs[k].has_ids,
     rows |-> ConcatRows(dfs)]

RECURSIVE SortedSeq(_)
\* the elements of a set of numbers in ascending order
SortedSeq(S) ==
    IF S = {} THEN <<>>
    ELSE LET m == CHOOSE m \in S : \A k \in S : m <= k
         IN  <<m>> \o SortedSeq(S \ {m})

\* the value column of a row
ValueOf(row, v) == IF v = "distance" THEN row.distance ELSE row.duration

\* the mean of a set of row values (the rows of one group)
MeanOf(group, v) ==
    SumOver(group, [r \in group |-> ValueOf(r, v)]) \div Cardinality(group)

\* DataFrame.pivot_table(values=value, index="dest_id", columns="orig_id"):
\* the rows are grouped by their two ids (rows without ids or without a
\* value drop out), the labels of each axis are the ids that remain, sorted,
\* and a cell is the mean of its group or NaN when it has none.  It raises
\* when the table has no id columns.
PivotTable(df, v) ==
    IF ~df.has_ids
    THEN Raised
    ELSE LET kept == {df.rows[k] : k \in
                         {k \in 1..Len(df.rows) :
                             /\ df.rows[k].orig_id # NaN
                             /\ df.rows[k].dest_id # NaN
                             /\ ValueOf(df.rows[k], v) # NaN}}
             index == SortedSeq({r.dest_id : r \in kept})
             columns == SortedSeq({r.orig_id : r \in kept})
             Group(d, o) == {r \in kept : r.dest_id = d /\ r.orig_id = o}
         IN  DataFrame(
                 [i \in 1..Len(index) |->
                     [j \in 1..Len(columns) |->
                         IF Group(index[i], columns[j]) = {} THEN NaN
                         ELSE MeanOf(Group(index[i], columns[j]), v)]],
                 index, columns)

PivotNoRelabel(df, enum_ids, target_ids, v) == PivotTable(df, v)

\* cost_matrix.columns = enum ids; cost_matrix.index = target ids: each
\* assignment raises when the number of labels differs from the axis length
PivotAndRelabel(df, enum_ids, target_ids, v) ==
    LET pivoted == PivotTable(df, v)
    IN  IF pivoted = Raised THEN Raised
        ELSE IF Len(pivoted.columns) # Len(enum_ids) THEN Raised
        ELSE IF Len(pivoted.index) # Len(target_ids) THEN Raised
        ELSE DataFrame(pivoted.values, target_ids, enum_ids)

\* get_enum_target_google_distance_table up to its loop: the generator of
\* request blocks
GoogleStart ==
    /\ pc = "call"
    /\ provider = "google"
    /\ request_queue' = generate_google_enum_target_request_pairs(
                            Len(enum_locations), Len(target_locations))
    /\ pc' = "request"
    /\ UNCHANGED <<provider, provider_faults, value, latency, matrix_df, pending, rows,
                   requests, parsed_dfs>>
    /\ UNCHANGED <<clock, sent_at, completed, responses>>
    /\ UNCHANGED notCostVars

\* one iteration of the loop: the limit assertions, the request (sent at
\* once, answered after the latency of the service) and the parse.  An
\* assertion that fails or a parse that raises ends the call.
GoogleRequest ==
    /\ pc = "request"
    /\ request_queue # <<>>
    /\ LET block == Head(request_queue)
           origin_coords == Take(get_gps_coords(enum_locations),
                                 block.orig_idx)
           destination_coords == Take(get_gps_coords(target_locations),
                                      block.dest_idx)
           orig_ids == Take(get_ids(enum_locations), block.orig_idx)
           dest_ids == Take(get_ids(target_locations), block.dest_idx)
       IN  /\ requests' = Append(requests, block)
           /\ request_queue' = Tail(request_queue)
           /\ IF RequestWithinLimits(origin_coords, destination_coords)
              THEN /\ sent_at' = Append(sent_at, clock)
                   /\ clock' = clock + latency
                   /\ \E response \in GoogleResponses(
                            origin_coords, destination_coords,
                            provider_faults) :
                         LET parsed == parse_google_distance_matrix_response(
                                           response, orig_ids, dest_ids)
                         IN  /\ responses' = Append(responses, response)
                             /\ IF parsed = Raised
                                THEN /\ matrix_df' = Raised
                                     /\ pc' = "done"
                                     /\ UNCHANGED parsed_dfs
                                ELSE /\ parsed_dfs' = Append(parsed_dfs, parsed)
                                     /\ UNCHANGED <<pc, matrix_df>>
              ELSE /\ matrix_df' = Raised
                   /\ pc' = "done"
                   /\ UNCHANGED <<parsed_dfs, clock, sent_at, responses>>
    /\ UNCHANGED <<provider, provider_faults, value, latency, pending, rows,
                   completed>>
    /\ UNCHANGED notCostVars

\* after the loop: pd.concat, then the pivot and the labels of
\* get_enum_target_google_distance_matrix
GooglePivot ==
    /\ pc = "request"
    /\ request_queue = <<>>
    /\ matrix_df' = PivotAndRelabel(Concat(parsed_dfs),
                                    get_ids(enum_locations),
                                    get_ids(target_locations), value)
    /\ pc' = "done"
    /\ UNCHANGED <<provider, provider_faults, value, latency, pending, rows, request_queue,
                   requests, parsed_dfs>>
    /\ UNCHANGED <<clock, sent_at, completed, responses>>
    /\ UNCHANGED notCostVars

NextCost ==
    \/ Haversine
    \/ Osrm
    \/ OsrmAsyncStart
    \/ OsrmAsyncComplete
    \/ OsrmAsyncGathered
    \/ GoogleStart
    \/ GoogleRequest
    \/ GooglePivot

SpecCost == InitCost /\ [][NextCost]_vars

(***************************************************************************)
(* The Google provider on larger location sets, answered without faults:   *)
(* how get_enum_target_google_distance_table tiles its requests.           *)
(***************************************************************************)
MaxNOrig == 9
MaxNDest == 51

\* the numbers of enumerators and targets: every small pair, and the
\* scenario of 30 enumerators and 50 targets
TileSizes == ((1..MaxNOrig) \X (1..MaxNDest)) \cup {<<30, 50>>}

\* n locations with the ids 1..n, all at one place
LocationsInOnePlace(n) == [k \in 1..n |-> [id |-> k, lat |-> 0]]

InitTile ==
    /\ pc = "call"
    /\ provider = "google"
    /\ provider_faults = FALSE
    /\ value = "duration"
    /\ \E size \in TileSizes :
          /\ enum_locations = LocationsInOnePlace(size[1])
          /\ target_locations = LocationsInOnePlace(size[2])
    /\ matrix_df = None
    /\ pending = {}
    /\ rows = <<>>
    /\ request_queue = <<>>
    /\ requests = <<>>
    /\ parsed_dfs = <<>>
    /\ latency \in IF provider = "google" THEN Latencies ELSE {0}
    /\ clock = 0
    /\ sent_at = <<>>
    /\ completed = <<>>
    /\ responses = <<>>
    /\ cost_matrix = None
    /\ SolveIdle
    /\ TableIdle
    /\ FlowIdle
    /\ RankIdle

NextTile ==
    \/ GoogleStart
    \/ GoogleRequest
    \/ GooglePivot

SpecTile == InitTile /\ [][NextTile]_vars

(***************************************************************************)
(* surveyscout/utils.py: validate_data_config, on location sets whose rows *)
(* also carry a longitude.                                                 *)
(***************************************************************************)
Min(S) == CHOOSE m \in S : \A k \in S : m <= k

\* the four groups of assertions; a failing assertion raises, otherwise
\* the function returns True
validate_data_config(locations) ==
    LET ids == {locations[k].id : k \in 1..Len(locations)}
        lats == {locations[k].lat : k \in 1..Len(locations)}
        lngs == {locations[k].lng : k \in 1..Len(locations)}
    IN  IF /\ NaN \notin ids
           /\ Cardinality(ids) = Len(locations)
           /\ Min(lats) >= -90
           /\ Max(lats) <= 90
           /\ Min(lngs) >= -180
           /\ Max(lngs) <= 180
        THEN TRUE
        ELSE Raised

\* the enumerators of the flows: the first at latitude 0, the others at
\* latitude MaxCostVal
FlowEnumLocations ==
    [k \in 1..NEnum |->
        [id |-> k, lat |-> IF k = 1 THEN 0 ELSE MaxCostVal, lng |-> 0]]

\* the targets of the flows: each at a latitude between the enumerators
FlowTargetLocationSets ==
    {[k \in 1..NTarget |-> [id |-> k, lat |-> lats[k], lng |-> 0]] :
        lats \in [1..NTarget -> 0..MaxCostVal]}

\* the ways a location set can be invalid
Defects == {"null_id", "duplicate_id", "latitude_low", "latitude_high",
            "longitude_low", "longitude_high"}

\* a location set with one defect in its first row
Spoiled(locations, defect) ==
    [locations EXCEPT ![1] =
        CASE defect = "null_id" -> [@ EXCEPT !.id = NaN]
          [] defect = "duplicate_id" -> [@ EXCEPT !.id = locations[2].id]
          [] defect = "latitude_low" -> [@ EXCEPT !.lat = -91]
          [] defect = "latitude_high" -> [@ EXCEPT !.lat = 91]
          [] defect = "longitude_low" -> [@ EXCEPT !.lng = -181]
          [] defect = "longitude_high" -> [@ EXCEPT !.lng = 181]]

\* the pairs of location sets given to a flow: valid ones, pairs in which
\* the enumerators have a defect, and pairs in which the targets have a
\* defect of their ids
FlowLocationPairs ==
    ({FlowEnumLocations} \X FlowTargetLocationSets)
    \cup {<<Spoiled(FlowEnumLocations, d),
            CHOOSE t \in FlowTargetLocationSets : TRUE>> : d \in Defects}
    \cup {<<FlowEnumLocations,
            Spoiled(CHOOSE t \in FlowTargetLocationSets : TRUE, d)>> :
              d \in {"null_id", "duplicate_id"}}

(***************************************************************************)
(* surveyscout/flows: min_distance_flow.py, routed_min_distance_flow.py.   *)
(* The services of the flows answer without faults.                        *)
(***************************************************************************)
RoutedFlows == {"basic_routed_min_distance_flow",
                "recursive_routed_min_distance_flow"}

RecursiveFlows == {"recursive_min_distance_flow",
                   "recursive_routed_min_distance_flow"}

FlowNames == {"basic_min_distance_flow", "recursive_min_distance_flow"}
             \cup RoutedFlows

SupportsEveryCostFunction(f) == {"haversine", "osrm", "google"}

\* the values of cost_function (of routing, in the routed flows) that pass
\* the first if / elif of the flow
SupportedCostFunctions(f) ==
    IF f \in RoutedFlows THEN {"osrm"} ELSE {"haversine", "osrm"}

\* the names a caller may pass
CostFunctionNames == {"haversine", "osrm", "google"}

\* a coordinate pair the OSRM service accepts in a request
CoordinatesInRange(row) ==
    /\ row.lat >= -90 /\ row.lat <= 90
    /\ row.lng >= -180 /\ row.lng <= 180

\* _get_unique_target_enum_row_osrm for target i: the service answers a
\* request with distances unless one of its coordinates is out of range
FlowOsrmRow(enum_locs, target_locs, i) ==
    LET coords == OsrmRequestCoords(get_gps_coords(target_locs)[i],
                                    get_gps_coords(enum_locs))
        accepted == /\ CoordinatesInRange(target_locs[i])
                    /\ \A k \in 1..Len(enum_locs) :
                          CoordinatesInRange(enum_locs[k])
    IN  OsrmRowFromResponse(
            IF accepted
            THEN CHOOSE r \in OsrmTableResponses(coords, FALSE) : TRUE
            ELSE [has_distances |-> FALSE, distances |-> <<>>])

\* cost_func(enum_locations=..., target_locations=...): the matrix the
\* chosen provider returns
FlowCostMatrices(name, enum_locs, target_locs) ==
    IF name = "haversine"
    THEN {get_enum_target_haversine_matrix(enum_locs, target_locs)}
    ELSE {DataFrameFromRows(
              [i \in 1..Len(target_locs) |->
                  FlowOsrmRow(enum_locs, target_locs, i)],
              get_ids(target_locs), get_ids(enum_locs))}

\* Series.min() and Series.max(): NaN entries are skipped, and the result
\* is NaN when nothing is left
SeriesMin(series) ==
    LET known == {series[k] : k \in 1..Len(series)} \ {NaN}
    IN  IF known = {} THEN NaN ELSE Min(known)

SeriesMaxAsMin(series) == SeriesMin(series)

SeriesMax(series) ==
    LET known == {series[k] : k \in 1..Len(series)} \ {NaN}
    IN  IF known = {} THEN NaN ELSE Max(known)

min_possible_max_distance_over_columns(df) ==
    SeriesMax([j \in 1..Len(df.columns) |->
                  SeriesMin([i \in 1..Len(df.values) |-> df.values[i][j]])])

\* matrix_df.min(axis=1).max(): the largest, over the targets (rows), of the
\* smallest cost in the row
min_possible_max_distance(df) ==
    SeriesMax([i \in 1..Len(df.values) |-> SeriesMin(df.values[i])])

UnflooredMaxDistance(max_distance, df) == max_distance

\* if max_distance <= min_possible_max_distance: max_distance = ... (a
\* comparison with NaN is false)
FlooredMaxDistance(max_distance, df) ==
    LET floor == min_possible_max_distance(df)
    IN  IF floor # NaN /\ max_distance <= floor THEN floor ELSE max_distance

\* postprocess_results, imported by the flows from
\* surveyscout.tasks.postprocessing: the assignment postprocessor, which
\* turns the assignment matrix into the assignment table
postprocess_results(results, enum_locs, target_locs) ==
    IF results = None THEN Raised
    ELSE convert_assignment_matrix_to_table(results, enum_locs, target_locs,
                                            None)

\* the arguments of a call, other than the location sets
FlowArgs(f) ==
    {[min_target |-> a, max_target |-> b, max_distance |-> c,
      max_total_distance |-> d, cost_function |-> n, param_increment |-> inc] :
        a \in MinTargets, b \in MaxTargets, c \in MaxCosts,
        d \in {0} \cup MaxTotalCosts, n \in CostFunctionNames,
        inc \in IF f \in RecursiveFlows
                THEN {DEFAULT_PARAM_INCREMENT, 100}
                ELSE {DEFAULT_PARAM_INCREMENT}}

InitFlow ==
    /\ pc = "idle"
    /\ flow \in FlowNames \cup {"validate_data_config"}
    /\ flow_pc = "call"
    /\ flow_args \in IF flow \in FlowNames THEN FlowArgs(flow) ELSE {<<>>}
    /\ flow_result = None
    /\ \E pair \in FlowLocationPairs :
          /\ enum_locations = pair[1]
          /\ target_locations = IF flow \in FlowNames THEN pair[2] ELSE <<>>
    /\ cost_matrix = None
    /\ SolveIdle
    /\ TableIdle
    /\ CostIdle
    /\ RankIdle

\* a direct call of validate_data_config on a location set
ValidateDataConfig ==
    /\ flow_pc = "call"
    /\ flow = "validate_data_config"
    /\ flow_result' = validate_data_config(enum_locations)
    /\ flow_pc' = "done"
    /\ UNCHANGED <<flow, flow_args>>
    /\ UNCHANGED <<pc, solveVars, locVars, tableVars, costVars, rankVars>>

\* else: raise ValueError(...), for a cost_function (routing) that is none
\* of the names of the if / elif
FlowRejectCostFunction ==
    /\ flow_pc = "call"
    /\ flow \in FlowNames
    /\ flow_args.cost_function \notin SupportedCostFunctions(flow)
    /\ flow_result' = Raised
    /\ flow_pc' = "done"
    /\ UNCHANGED <<flow, flow_args>>
    /\ UNCHANGED <<pc, solveVars, locVars, tableVars, costVars, rankVars>>

\* the flow from the provider's call to the call of the optimizer: the cost
\* matrix, in the recursive flows the floor on max_distance, and the
\* arguments handed to min_target_optimization_model or to
\* recursive_min_target_optimization
FlowComputeCost ==
    /\ flow_pc = "call"
    /\ flow \in FlowNames
    /\ flow_args.cost_function \in SupportedCostFunctions(flow)
    /\ \E df \in FlowCostMatrices(flow_args.cost_function, enum_locations,
                                  target_locations) :
          /\ matrix_df' = df
          /\ IF df = Raised
             THEN /\ flow_result' = Raised
                  /\ flow_pc' = "done"
                  /\ UNCHANGED <<pc, solveVars>>
             ELSE /\ cost_matrix' = df.values
                  /\ params' =
                        [min_target |-> flow_args.min_target,
                         max_target |-> flow_args.max_target,
                         max_cost |->
                             IF flow \in RecursiveFlows
                             THEN FlooredMaxDistance(flow_args.max_distance, df)
                             ELSE flow_args.max_distance,
                         max_total_cost |-> flow_args.max_total_distance,
                         den |-> 1]
                  /\ mode' = IF flow \in RecursiveFlows
                             THEN "recursive_min_target_optimization"
                             ELSE "min_target_optimization_model"
                  /\ param_increment' = flow_args.param_increment
                  /\ pc' = "call"
                  /\ flow_pc' = "solve"
                  /\ UNCHANGED <<attempts, result, ret_params, flow_result>>
    /\ UNCHANGED <<flow, flow_args, locVars, tableVars, rankVars>>
    /\ UNCHANGED <<provider, provider_faults, value, latency, pending, rows,
                   request_queue, requests, parsed_dfs, clock, sent_at,
                   completed, responses>>

\* the flow after the optimizer has returned: in min_distance_flow.py the
\* log line with len(results_matrix), a TypeError on None; then
\* postprocess_results and the return
FlowReturn ==
    /\ flow_pc = "solve"
    /\ pc = "done"
    /\ flow_result' =
          IF result = Raised THEN Raised
          ELSE IF flow \notin RoutedFlows /\ result = None THEN Raised
          ELSE LET results == postprocess_results(result, enum_locations,
                                                  target_locations)
               IN  IF results = Raised THEN Raised
                   ELSE IF flow \in RecursiveFlows
                   THEN [results |-> results, params |-> ret_params]
                   ELSE [results |-> results]
    /\ flow_pc' = "done"
    /\ UNCHANGED <<flow, flow_args>>
    /\ UNCHANGED <<pc, solveVars, locVars, tableVars, costVars, rankVars>>

NextFlow ==
    \/ ValidateDataConfig
    \/ FlowRejectCostFunction
    \/ FlowComputeCost
    \/ CallModel
    \/ RecursiveSolved
    \/ RecursiveRetry
    \/ RecursiveExhausted
    \/ RecursionLimitExceeded
    \/ FlowReturn

SpecFlow == InitFlow /\ [][NextFlow]_vars

(***************************************************************************)
(* surveyscout/tasks/rank.py: add_visit_order.  The assignment table is    *)
(* the sequence of its rows; the trip service is asked for one round trip  *)
(* per enumerator, all requests being in flight at the same time.          *)
(***************************************************************************)
NRankTarget == 3
RankTargets == 1..NRankTarget
RankCosts == 1..2

\* where the target of an id is: pairwise different distances between
\* the targets
RankLat(id) == id * id

RankTargetLocationSets ==
    {[k \in RankTargets |-> [id |-> ids[k], lat |-> RankLat(ids[k])]] :
        ids \in IdOrders(NRankTarget)}

\* the assignment tables a caller can pass: one row per target, in any
\* order of the rows
AssignmentTables ==
    {[k \in RankTargets |->
         [target_id |-> ids[k], enum_id |-> e[k], cost |-> c[k]]] :
        ids \in IdOrders(NRankTarget), e \in [RankTargets -> Enums],
        c \in [RankTargets -> RankCosts]}

\* assignment_df.groupby("enum_id"): the keys, and the rows of one key in
\* the order of the table
GroupKeys(df) == {df[k].enum_id : k \in 1..Len(df)}

GroupOf(df, enum_id) == SelectSeq(df, LAMBDA row : row.enum_id = enum_id)

TargetIdsOf(df) == {df[k].target_id : k \in 1..Len(df)}

\* LocationDataset.create_subset: the rows of the dataset whose id is among
\* subset_ids, in the order of the dataset
create_subset(locations, subset_ids) ==
    SelectSeq(locations, LAMBDA row : row.id \in subset_ids)

\* the coordinates of the request, one per row of the dataset
convert_coords_to_osrm_query(locations) == get_gps_coords(locations)

\* the coordinates sent for one enumerator
TripQuery(df, locations, enum_id) ==
    convert_coords_to_osrm_query(
        create_subset(locations, TargetIdsOf(GroupOf(df, enum_id))))

\* the round trips over n coordinates: order[k] is the position in the
\* request of the coordinate visited k-th
Tours(n) == IdOrders(n)

\* the answer for one tour: the waypoints in request order, each with its
\* place in the tour, and the legs in tour order, the last one back to the
\* start
TripResponse(coords, order) ==
    LET n == Len(coords)
    IN  [status |-> "Ok",
         waypoints |->
            [i \in 1..n |-> (CHOOSE k \in 1..n : order[k] = i) - 1],
         legs |->
            [k \in 1..n |->
                OsrmMetres(coords[order[k]], coords[order[(k % n) + 1]])]]

\* the answers the trip service can give: any round trip, or an HTTP error
TripResponses(coords) ==
    {TripResponse(coords, order) : order \in Tours(Len(coords))}
    \cup {[status |-> "error", waypoints |-> <<>>, legs |-> <<>>]}

\* the order of the rows under one or two sort columns
KeyBefore(a, b) == a[1] < b[1] \/ (a[1] = b[1] /\ a[2] < b[2])

\* DataFrame.sort_values, keys being the sort columns of the rows (rows of
\* equal keys are kept in their order; the keys are pairwise different
\* wherever the program sorts)
SortValues(df, keys) ==
    LET p == CHOOSE q \in IdOrders(Len(df)) :
                 \A a, b \in 1..Len(df) :
                     a < b => \/ KeyBefore(keys[q[a]], keys[q[b]])
                              \/ /\ keys[q[a]] = keys[q[b]]
                                 /\ q[a] < q[b]
    IN  [k \in 1..Len(df) |-> df[p[k]]]

\* by="target_visit_order"
ByVisitOrder(df) ==
    [k \in 1..Len(df) |-> <<0, df[k].target_visit_order>>]

\* by=["enum_id", "target_visit_order"]
ByEnumThenVisitOrder(df) ==
    [k \in 1..Len(df) |-> <<df[k].enum_id, df[k].target_visit_order>>]

\* df.cost.idxmin(): the first row of minimum cost
idxmin(df) ==
    CHOOSE p \in 1..Len(df) :
        /\ \A q \in 1..Len(df) : df[p].cost <= df[q].cost
        /\ \A q \in 1..(p - 1) : df[p].cost < df[q].cost

\* the rank of the first row of a target id
StartRank(df, target_id) ==
    LET p == CHOOSE q \in 1..Len(df) :
                 /\ df[q].target_id = target_id
                 /\ \A r \in 1..(q - 1) : df[r].target_id # target_id
    IN  df[p].target_visit_order

CycledRanksWithoutModulo(df, start_rank) ==
    [i \in 1..Len(df) |->
        [df[i] EXCEPT !.target_visit_order = @ - start_rank]]

\* (df.target_visit_order - start_rank) % len(df)
CycledRanks(df, start_rank) ==
    [i \in 1..Len(df) |->
        [df[i] EXCEPT !.target_visit_order = (@ - start_rank) % Len(df)]]

rerank_from_first_row(df) ==
    LET cycled == CycledRanks(df, df[1].target_visit_order)
    IN  SortValues(cycled, ByVisitOrder(cycled))

\* _rerank
rerank(df) ==
    LET closest_target_id == df[idxmin(df)].target_id
        start_rank == StartRank(df, closest_target_id)
        cycled == CycledRanks(df, start_rank)
    IN  SortValues(cycled, ByVisitOrder(cycled))

\* what makes _get_visit_order_for_enum raise: an error status, in
\* _fetch_osrm_trip_data, or a list of another length than the frame
VisitOrderRaises(df, response) ==
    \/ response.status # "Ok"
    \/ Len(response.waypoints) # Len(df)
    \/ Len(response.legs) # Len(df)

\* _get_visit_order_for_enum once the response is there: the two lists are
\* written on the rows by position, then the rows are re-ranked
get_visit_order_for_enum(df, response) ==
    IF VisitOrderRaises(df, response)
    THEN Raised
    ELSE      rerank([i \in 1..Len(df) |->
                  [target_id |-> df[i].target_id,
                   enum_id |-> df[i].enum_id,
                   cost |-> df[i].cost,
                   target_visit_order |-> response.waypoints[i],
                   distance_to_next_in_km |-> response.legs[i] \div 1000]])

\* pd.concat of the frames the tasks returned, in the order of the tasks
RECURSIVE ConcatFrames(_, _)
ConcatFrames(frames, keys) ==
    IF keys = {}
    THEN <<>>
    ELSE LET e == Min(keys)
         IN  frames[e] \o ConcatFrames(frames, keys \ {e})

\* assignment_df.merge(visit_orders, on=["target_id", "enum_id"],
\* how="left"): both frames have a cost column, and a pair occurs once in
\* each frame
MergeLeft(left, right) ==
    [k \in 1..Len(left) |->
        LET m == SelectSeq(right,
                     LAMBDA r : /\ r.target_id = left[k].target_id
                                /\ r.enum_id = left[k].enum_id)
        IN  [target_id |-> left[k].target_id,
             enum_id |-> left[k].enum_id,
             cost_x |-> left[k].cost,
             cost_y |-> IF m = <<>> THEN NaN ELSE m[1].cost,
             target_visit_order |->
                IF m = <<>> THEN NaN ELSE m[1].target_visit_order,
             distance_to_next_in_km |->
                IF m = <<>> THEN NaN ELSE m[1].distance_to_next_in_km]]

InitRank ==
    /\ pc = "call"
    /\ assignment_df \in AssignmentTables
    /\ target_locations \in RankTargetLocationSets
    /\ enum_locations = <<>>
    /\ trip_pending = {}
    /\ trip_responses = <<>>
    /\ trip_completed = <<>>
    /\ visit_ranks = <<>>
    /\ visit_plan = None
    /\ cost_matrix = None
    /\ SolveIdle
    /\ TableIdle
    /\ CostIdle
    /\ FlowIdle

notRankVars == <<solveVars, locVars, tableVars, costVars, flowVars>>

\* _get_visit_order (the call is one of add_visit_order, not of a cost
\* provider): one task per group, each with a copy of its rows
RankStart ==
    /\ pc = "call"
    /\ provider = ""
    /\ trip_pending' = GroupKeys(assignment_df)
    /\ trip_responses' = [e \in GroupKeys(assignment_df) |-> <<>>]
    /\ visit_ranks' = [e \in GroupKeys(assignment_df) |-> <<>>]
    /\ pc' = "rank"
    /\ UNCHANGED <<assignment_df, trip_completed, visit_plan>>
    /\ UNCHANGED notRankVars

\* the request of one task is answered, in any order among the tasks, and
\* the task returns its frame
RankTaskReturns ==
    /\ pc = "rank"
    /\ \E e \in trip_pending :
          \E response \in TripResponses(
                 TripQuery(assignment_df, target_locations, e)) :
             LET df == get_visit_order_for_enum(
                           GroupOf(assignment_df, e), response)
             IN  /\ ~VisitOrderRaises(GroupOf(assignment_df, e), response)
                 /\ trip_responses' = [trip_responses EXCEPT ![e] = response]
                 /\ visit_ranks' = [visit_ranks EXCEPT ![e] = df]
                 /\ trip_pending' = trip_pending \ {e}
                 /\ trip_completed' = Append(trip_completed, e)
    /\ UNCHANGED <<pc, assignment_df, visit_plan>>
    /\ UNCHANGED notRankVars

\* a task raises: asyncio.gather hands the exception to _get_visit_order at
\* once, and asyncio.run cancels the tasks still pending
RankTaskRaises ==
    /\ pc = "rank"
    /\ \E e \in trip_pending :
          \E response \in TripResponses(
                 TripQuery(assignment_df, target_locations, e)) :
             /\ VisitOrderRaises(GroupOf(assignment_df, e), response)
             /\ trip_responses' = [trip_responses EXCEPT ![e] = response]
    /\ visit_plan' = Raised
    /\ pc' = "done"
    /\ UNCHANGED <<assignment_df, trip_pending, trip_completed, visit_ranks>>
    /\ UNCHANGED notRankVars

\* all tasks are done: asyncio.gather returns their frames in task order,
\* add_visit_order merges them into the table and sorts it
RankGathered ==
    /\ pc = "rank"
    /\ trip_pending = {}
    /\ LET visit_orders ==
               ConcatFrames(visit_ranks, GroupKeys(assignment_df))
           merged == MergeLeft(assignment_df, visit_orders)
       IN  visit_plan' = SortValues(merged, ByEnumThenVisitOrder(merged))
    /\ pc' = "done"
    /\ UNCHANGED <<assignment_df, trip_pending, trip_responses,
                   trip_completed, visit_ranks>>
    /\ UNCHANGED notRankVars

NextRank ==
    \/ RankStart
    \/ RankTaskReturns
    \/ RankTaskRaises
    \/ RankGathered

SpecRank == InitRank /\ [][NextRank]_vars

(***************************************************************************)
(* The two concurrent fan-outs side by side: the asynchronous OSRM cost    *)
(* matrix and the visit order.                                             *)
(***************************************************************************)
InitAsync ==
    \/ InitCost /\ provider = "osrm_async"
    \/ InitRank

NextAsync ==
    \/ OsrmAsyncStart
    \/ OsrmAsyncComplete
    \/ OsrmAsyncGathered
    \/ RankStart
    \/ RankTaskReturns
    \/ RankTaskRaises
    \/ RankGathered

SpecAsync == InitAsync /\ [][NextAsync]_vars

(***************************************************************************)
(* Properties of the cost-matrix providers.                                *)
(***************************************************************************)
\* a provider returned a DataFrame
MatrixReturned == pc = "done" /\ matrix_df # None /\ matrix_df # Raised

Range(seq) == {seq[k] : k \in 1..Len(seq)}

\* the latitude of the location with an id
LatOfId(locations, id) == locations[IndexOfId(locations, id)].lat

\* C7: whichever provider returns it, the cost matrix has one row per target
\* and one column per enumerator, labelled with the target ids and the
\* enumerator ids in the order of the location sets.
CostMatrixShapeAndLabels ==
    MatrixReturned =>
        /\ Len(matrix_df.values) = Len(target_locations)
        /\ \A i \in 1..Len(matrix_df.values) :
              Len(matrix_df.values[i]) = Len(enum_locations)
        /\ matrix_df.index = [k \in 1..Len(target_locations) |->
                                 target_locations[k].id]
        /\ matrix_df.columns = [k \in 1..Len(enum_locations) |->
                                   enum_locations[k].id]

\* the Google provider returned a matrix for location sets whose ids are not
\* in sorted order
WitnessCostMatrixShapeAndLabels ==
    /\ MatrixReturned
    /\ provider = "google"
    /\ enum_locations[1].id > enum_locations[2].id
    /\ target_locations[1].id > target_locations[2].id

\* C8: in the matrix of the Google provider, the cell at row label t and
\* column label e holds the value the provider returned for origin e and
\* destination t, whatever the order of the ids.
GoogleCellsMatchTheirLabels ==
    (MatrixReturned /\ provider = "google") =>
        \A i \in 1..Len(matrix_df.index) :
            \A j \in 1..Len(matrix_df.columns) :
                LET orig == LatOfId(enum_locations, matrix_df.columns[j])
                    dest == LatOfId(target_locations, matrix_df.index[i])
                IN  matrix_df.values[i][j] \in
                        {NaN, IF value = "distance"
                              THEN GoogleDistance(orig, dest)
                              ELSE GoogleDuration(orig, dest)}

\* C9: once every request is issued, each (origin, destination) pair of the
\* grid lies in exactly one request block, and with every response OK the
\* matrix is returned complete: one row per target, one column per
\* enumerator, no unknown cell.
RequestsTileTheGrid ==
    (provider = "google" /\ pc \in {"request", "done"}
         /\ request_queue = <<>>) =>
        /\ \A o \in 1..Len(enum_locations) :
              \A d \in 1..Len(target_locations) :
                  Cardinality({k \in 1..Len(requests) :
                                  /\ o \in Range(requests[k].orig_idx)
                                  /\ d \in Range(requests[k].dest_idx)}) = 1
        /\ pc = "done" =>
              /\ matrix_df # Raised
              /\ Len(matrix_df.values) = Len(target_locations)
              /\ \A i \in 1..Len(matrix_df.values) :
                    /\ Len(matrix_df.values[i]) = Len(enum_locations)
                    /\ \A j \in 1..Len(matrix_df.values[i]) :
                          matrix_df.values[i][j] # NaN

\* the complete matrix of 30 enumerators and 50 targets, from several requests
WitnessRequestsTileTheGrid ==
    /\ MatrixReturned
    /\ Len(enum_locations) = 30
    /\ Len(target_locations) = 50
    /\ Len(requests) > 1
    /\ request_queue = <<>>

\* C10: every request issued has at most 4 origins, at most 25 destinations
\* and at most 100 elements, and no limit assertion fails.
RequestsRespectQuotas ==
    provider = "google" =>
        /\ \A k \in 1..Len(requests) :
              /\ Len(requests[k].orig_idx) <= 4
              /\ Len(requests[k].dest_idx) <= 25
              /\ Len(requests[k].orig_idx) * Len(requests[k].dest_idx) <= 100
        /\ Len(parsed_dfs) = Len(requests)

\* a full request of 4 origins and 25 destinations was issued, for more
\* origins and more destinations than one request may carry
WitnessRequestsRespectQuotas ==
    /\ provider = "google"
    /\ Len(enum_locations) > 4
    /\ Len(target_locations) > 25
    /\ \E k \in 1..Len(requests) :
          Len(requests[k].orig_idx) * Len(requests[k].dest_idx) = 100

(***************************************************************************)
(* Properties of the Google provider's request loop and of its failures.   *)
(***************************************************************************)
\* the number of origin x destination elements of the k-th request
ElementsOf(k) == Len(requests[k].orig_idx) * Len(requests[k].dest_idx)

\* the elements submitted within one second from the k-th request on
ElementsWithinSecondFrom(k) ==
    LET inWindow == {m \in 1..Len(sent_at) :
                        /\ sent_at[m] >= sent_at[k]
                        /\ sent_at[m] < sent_at[k] + TicksPerSecond}
    IN  SumOver(inWindow, [m \in inWindow |-> ElementsOf(m)])

\* C11: over the requests issued by one call of the Google provider, no more
\* than MAX_ELEMENTS_PER_SECOND elements are submitted within any one second.
RateLimitRespected ==
    provider = "google" =>
        \A k \in 1..Len(sent_at) :
            ElementsWithinSecondFrom(k) <= MAX_ELEMENTS_PER_SECOND

\* the requests whose whole response had a status other than OK
FailedBlocks == {k \in 1..Len(parsed_dfs) : ~parsed_dfs[k].has_ids}

\* the cell of target position i and enumerator position j lies in a block
\* whose request failed
InFailedBlock(i, j) ==
    \E k \in FailedBlocks :
        /\ i \in Range(requests[k].dest_idx)
        /\ j \in Range(requests[k].orig_idx)

\* C12: when the whole response of a block is not OK the computation still
\* returns the full targets x enumerators matrix, in which the cells of that
\* block are unknown and every other cell holds the provider's value.
FailedBlockCellsAreUnknown ==
    (provider = "google" /\ pc = "done" /\ FailedBlocks # {}) =>
        /\ matrix_df # Raised
        /\ Len(matrix_df.values) = Len(target_locations)
        /\ \A i \in 1..Len(target_locations) :
              /\ Len(matrix_df.values[i]) = Len(enum_locations)
              /\ \A j \in 1..Len(enum_locations) :
                    matrix_df.values[i][j] =
                        IF InFailedBlock(i, j) THEN NaN
                        ELSE IF value = "distance"
                        THEN GoogleDistance(enum_locations[j].lat,
                                            target_locations[i].lat)
                        ELSE GoogleDuration(enum_locations[j].lat,
                                            target_locations[i].lat)

(***************************************************************************)
(* Properties of the relaxation search.                                    *)
(***************************************************************************)
RecursiveReturned ==
    pc = "done" /\ mode = "recursive_min_target_optimization"

\* the parameters handed to the solver in the last attempt
LastAttempt == attempts[Len(attempts)]

\* C13: a search that returns a matrix stops at its first feasible attempt:
\* every earlier attempt was infeasible, no call follows, and the parameters
\* returned are those of that attempt, under which the matrix satisfies the
\* four constraints.
ReturnsFirstFeasibleAttempt ==
    (RecursiveReturned /\ Returned) =>
        /\ ret_params = LastAttempt
        /\ \A k \in 1..(Len(attempts) - 1) :
              FourConstraintMatrices(cost_matrix, attempts[k]) = {}
        /\ result \in FourConstraintMatrices(cost_matrix, ret_params)
        /\ ~ENABLED NextSolve

\* a matrix returned after a retry, under parameters other than the caller's
WitnessReturnsFirstFeasibleAttempt ==
    /\ RecursiveReturned
    /\ Returned
    /\ Len(attempts) > 1
    /\ ret_params # attempts[1]

\* a / a_den <= b / b_den, for positive denominators
RatioLeq(a, a_den, b, b_den) == a * b_den <= b * a_den

\* the parameter sets of the invocations made so far: those already handed
\* to the solver and, during a call, those of the current invocation
Invocations == IF pc = "call" THEN Append(attempts, params) ELSE attempts

\* invocation k is at least as loose as the invocation before it
NoTighterThanPrevious(k) ==
    LET prev == Invocations[k - 1]
        this == Invocations[k]
    IN  /\ RatioLeq(this.min_target, this.den, prev.min_target, prev.den)
        /\ RatioLeq(prev.max_target, prev.den, this.max_target, this.den)
        /\ RatioLeq(prev.max_cost, prev.den, this.max_cost, this.den)
        /\ RatioLeq(prev.max_total_cost, prev.den,
                    this.max_total_cost, this.den)

\* C14: for an increment in [0, 100] and non-negative parameters, every
\* retry's min_target is <= the previous attempt's and its max_target,
\* max_cost and max_total_cost are >= the previous attempt's.
RelaxationIsMonotone ==
    mode = "recursive_min_target_optimization" =>
        \A k \in 2..Len(Invocations) : NoTighterThanPrevious(k)

\* two retries, each strictly lowering min_target and raising max_target
WitnessRelaxationIsMonotone ==
    /\ mode = "recursive_min_target_optimization"
    /\ Len(Invocations) = 3
    /\ \A k \in 2..3 :
          /\ ~RatioLeq(Invocations[k - 1].min_target, Invocations[k - 1].den,
                       Invocations[k].min_target, Invocations[k].den)
          /\ ~RatioLeq(Invocations[k].max_target, Invocations[k].den,
                       Invocations[k - 1].max_target, Invocations[k - 1].den)

\* the increment percentage the caller passed: the one of the current
\* invocation before any retry, afterwards the one that scaled the first retry
CallerIncrement ==
    IF Len(Invocations) < 2 THEN param_increment
    ELSE (Invocations[2].max_target \div Invocations[1].max_target) - 100

\* C15: a search started with min_target > 0 and a positive increment that
\* finds no feasible attempt ends by returning failure, (None, {}), with
\* min_target relaxed down to 0.
RelaxationEndsInFailure ==
    (/\ RecursiveReturned
     /\ ~Returned
     /\ attempts[1].min_target > 0
     /\ CallerIncrement > 0) =>
        /\ result = None
        /\ ret_params = NoParams
        /\ LastAttempt.min_target <= 0

\* the current invocation's solve is infeasible and its min_target is <= 0
BudgetExhausted ==
    /\ pc = "call"
    /\ mode = "recursive_min_target_optimization"
    /\ FourConstraintMatrices(cost_matrix, params) = {}
    /\ params.min_target <= 0

\* C16: an invocation whose solve is infeasible with min_target <= 0 makes
\* that one attempt and no other, and returns (None, {}) without raising;
\* nothing runs after a return.
ExhaustedBudgetReturnsNoSolution ==
    [][/\ pc # "done"
       /\ BudgetExhausted =>
             /\ pc' = "done"
             /\ result' = None
             /\ ret_params' = NoParams
             /\ attempts' = Append(attempts, params)]_vars

\* failure returned after a retry that brought a positive min_target to 0
WitnessExhaustedBudgetReturnsNoSolution ==
    /\ RecursiveReturned
    /\ result = None
    /\ ret_params = NoParams
    /\ Len(attempts) = 2
    /\ attempts[1].min_target > 0
    /\ attempts[2].min_target = 0

(***************************************************************************)
(* Properties of the planning flows.                                       *)
(***************************************************************************)
\* the feasibility floor of a cost matrix: the largest, over the targets,
\* of the target's smallest cost to any enumerator
FeasibilityFloor(cm) ==
    LET Cheapest(i) == CHOOSE c \in {cm[i][j] : j \in Enums} :
                          \A j \in Enums : c <= cm[i][j]
    IN  CHOOSE f \in {Cheapest(i) : i \in Targets} :
            \A i \in Targets : Cheapest(i) <= f

\* a flow has computed its cost matrix
CostComputed == flow \in FlowNames /\ cost_matrix # None

\* the parameters of the first solver attempt of the flow
FirstAttempt == Invocations[1]

\* C17: a recursive flow runs its first solver attempt with max_cost equal
\* to the floor F when the caller's max_distance is <= F and to the caller's
\* max_distance otherwise, hence >= F, and raises no error for it.
MaxCostIsFlooredBeforeFirstAttempt ==
    (CostComputed /\ flow \in RecursiveFlows) =>
        LET F == FeasibilityFloor(cost_matrix)
        IN  /\ FirstAttempt.den = 1
            /\ FirstAttempt.max_cost =
                   IF flow_args.max_distance <= F THEN F
                   ELSE flow_args.max_distance
            /\ FirstAttempt.max_cost >= F
            /\ flow_pc = "solve" \/ attempts # <<>>

\* a first attempt made with the floor, above the caller's max_distance
WitnessMaxCostIsFlooredBeforeFirstAttempt ==
    /\ CostComputed
    /\ flow \in RecursiveFlows
    /\ attempts # <<>>
    /\ attempts[1].max_cost = FeasibilityFloor(cost_matrix)
    /\ attempts[1].max_cost > flow_args.max_distance

\* the caller's max_distance is below the floor of the computed matrix
BelowFloor ==
    CostComputed /\ flow_args.max_distance < FeasibilityFloor(cost_matrix)

\* C18, as stated: a max_cost below the feasibility floor is rejected by
\* the recursive flow with an error and no solve is attempted.
BelowFloorIsRejected ==
    (BelowFloor /\ flow \in RecursiveFlows) =>
        /\ flow_result = Raised
        /\ attempts = <<>>
        /\ pc = "idle"

\* C18, amended: a max_cost below the feasibility floor is not rejected.
\* The flow goes on to the optimizer, a recursive flow with max_cost raised
\* to the floor and a basic flow with the caller's value, and no error is
\* raised before the first attempt.
BelowFloorIsSolvedNotRejected ==
    BelowFloor =>
        /\ pc # "idle"
        /\ flow_pc = "done" => attempts # <<>>
        /\ FirstAttempt.max_cost =
               IF flow \in RecursiveFlows THEN FeasibilityFloor(cost_matrix)
               ELSE flow_args.max_distance

\* a recursive flow that returned an assignment although the caller's
\* max_distance was below the floor
WitnessBelowFloorIsSolvedNotRejected ==
    /\ BelowFloor
    /\ flow \in RecursiveFlows
    /\ flow_pc = "done"
    /\ flow_result # Raised
    /\ flow_result # None

\* the name passed is none of those the flow's if / elif compares with
UnsupportedName ==
    /\ flow \in FlowNames
    /\ flow_args.cost_function \notin
           (IF flow \in {"basic_routed_min_distance_flow",
                         "recursive_routed_min_distance_flow"}
            THEN {"osrm"} ELSE {"haversine", "osrm"})

IsValid(locations) ==
    /\ \A k \in 1..Len(locations) :
          /\ locations[k].id # NaN
          /\ locations[k].lat >= -90 /\ locations[k].lat <= 90
          /\ locations[k].lng >= -180 /\ locations[k].lng <= 180
    /\ \A k, m \in 1..Len(locations) :
          locations[k].id = locations[m].id => k = m

\* validate_data_config returns True exactly on the valid location sets and
\* raises on the others
ValidationRejectsInvalidData ==
    (flow = "validate_data_config" /\ flow_pc = "done") =>
        /\ IsValid(enum_locations) => flow_result = TRUE
        /\ ~IsValid(enum_locations) => flow_result = Raised

\* C20: invalid location sets are rejected by validate_data_config, and a
\* planning flow given one computes no cost matrix, makes no external call
\* and runs no optimization on it.
InvalidDataFailsFast ==
    /\ ValidationRejectsInvalidData
    /\ (flow \in FlowNames
           /\ ~(IsValid(enum_locations) /\ IsValid(target_locations))) =>
          /\ matrix_df = None
          /\ cost_matrix = None
          /\ attempts = <<>>
          /\ pc = "idle"

(***************************************************************************)
(* Properties of the route sequencer.                                      *)
(***************************************************************************)
\* add_visit_order has returned a visit plan
RankReturned == pc = "done" /\ provider = "" /\ trip_pending = {}

\* add_visit_order has ended with an exception
RankRaised == pc = "done" /\ provider = "" /\ trip_pending # {}

\* the rows of the visit plan of one enumerator, in the order of the plan
PlanRowsOf(enum_id) ==
    SelectSeq(visit_plan, LAMBDA row : row.enum_id = enum_id)

\* the visit rank the plan gives to a target
PlanRankOf(target_id) ==
    LET k == CHOOSE j \in 1..Len(visit_plan) :
                 visit_plan[j].target_id = target_id
    IN  visit_plan[k].target_visit_order

\* the rows of every group are in the order of the target dataset, as in a
\* table that comes from the postprocessor
TableInDatasetOrder ==
    \A e \in GroupKeys(assignment_df) :
        LET df == GroupOf(assignment_df, e)
        IN  [i \in 1..Len(df) |-> df[i].target_id]
                = get_ids(create_subset(target_locations, TargetIdsOf(df)))

\* C21: the visit ranks of every enumerator with k targets are exactly
\* 0..k-1, each once, and the plan has one row per row of the assignment
\* table, for the same (target, enumerator) pairs.
VisitOrdersArePermutations ==
    RankReturned =>
        /\ Len(visit_plan) = Len(assignment_df)
        /\ {<<visit_plan[k].target_id, visit_plan[k].enum_id>> :
                k \in 1..Len(visit_plan)}
             = {<<assignment_df[k].target_id, assignment_df[k].enum_id>> :
                   k \in 1..Len(assignment_df)}
        /\ \A e \in GroupKeys(assignment_df) :
              LET g == PlanRowsOf(e)
                  k == Len(GroupOf(assignment_df, e))
              IN  /\ Len(g) = k
                  /\ {g[i].target_visit_order : i \in 1..k} = 0..(k - 1)

\* a plan for an enumerator with three targets whose tour does not start
\* at the first coordinate of the request
WitnessVisitOrdersArePermutations ==
    /\ RankReturned
    /\ \E e \in GroupKeys(assignment_df) :
          /\ Len(GroupOf(assignment_df, e)) = NRankTarget
          /\ trip_responses[e].waypoints[1] # 0
          /\ trip_responses[e].waypoints[2] = 0
          /\ GroupOf(assignment_df, e)[3].cost = 1
          /\ GroupOf(assignment_df, e)[1].cost = 2
          /\ GroupOf(assignment_df, e)[2].cost = 2

\* C22: in every group the target of visit rank 0 has the minimum assignment
\* cost of the group, and every new rank is (old_rank - start_rank) mod
\* group_size, start_rank being the rank the response gave to a row of
\* minimum cost.
ReanchoredAtMinimumCost ==
    RankReturned =>
        \A e \in GroupKeys(assignment_df) :
            LET df == GroupOf(assignment_df, e)
                k == Len(df)
                old_rank == trip_responses[e].waypoints
                min_cost == Min({df[i].cost : i \in 1..k})
            IN  /\ PlanRowsOf(e)[1].target_visit_order = 0
                /\ PlanRowsOf(e)[1].cost_x = min_cost
                /\ \E s \in 1..k :
                      /\ df[s].cost = min_cost
                      /\ \A i \in 1..k :
                            PlanRankOf(df[i].target_id)
                                = (old_rank[i] - old_rank[s]) % k

\* a plan for a group of three whose only target of minimum cost is
\* neither the first row nor the first stop of the returned tour
WitnessReanchoredAtMinimumCost ==
    /\ RankReturned
    /\ \E e \in GroupKeys(assignment_df) :
          LET df == GroupOf(assignment_df, e)
          IN  /\ Len(df) = NRankTarget
              /\ df[1].cost = 2
              /\ df[2].cost = 1
              /\ df[3].cost = 2
              /\ trip_responses[e].waypoints[2] = 2
              /\ trip_responses[e].waypoints[1] = 0

\* the latitude of a target
LatOfTarget(target_id) ==
    target_locations[IndexOfId(target_locations, target_id)].lat

\* C23: in a plan made from a table in dataset order, the
\* distance_to_next_in_km of a row is the distance in km of the leg from
\* its target to the target of the next visit rank of the same enumerator.
DistanceToNextIsTourLeg ==
    (RankReturned /\ TableInDatasetOrder) =>
        \A e \in GroupKeys(assignment_df) :
            LET g == PlanRowsOf(e)
            IN  \A i \in 1..(Len(g) - 1) :
                    g[i].distance_to_next_in_km
                        = OsrmMetres(LatOfTarget(g[i].target_id),
                                     LatOfTarget(g[i + 1].target_id))
                              \div 1000

\* the rank the trip response gave to the coordinates of a target: the
\* waypoint of the place of the target in the request
ServiceRankOf(enum_id, target_id) ==
    LET sent == create_subset(target_locations,
                              TargetIdsOf(GroupOf(assignment_df, enum_id)))
    IN  trip_responses[enum_id].waypoints[IndexOfId(sent, target_id)]

\* C30: whatever the order of the rows of the assignment table, the ranks
\* of the plan are the ranks the response gave to the coordinates of the
\* same targets, rotated: two targets of an enumerator are as many stops
\* apart in the plan as in the tour of the response.
RanksFollowTheCoordinatesSent ==
    RankReturned =>
        \A e \in GroupKeys(assignment_df) :
            LET df == GroupOf(assignment_df, e)
                k == Len(df)
            IN  \A a, b \in 1..k :
                    (PlanRankOf(df[a].target_id)
                         - PlanRankOf(df[b].target_id)) % k
                      = (ServiceRankOf(e, df[a].target_id)
                             - ServiceRankOf(e, df[b].target_id)) % k

\* the same for the tables whose groups are in the order of the dataset
RanksFollowTheCoordinatesSentInDatasetOrder ==
    TableInDatasetOrder => RanksFollowTheCoordinatesSent

(***************************************************************************)
(* Further properties of the relaxation search.                            *)
(***************************************************************************)
\* C24: every retry, not only the first, scales the previous parameter set
\* by the increment percentage p the caller passed: min_target by
\* (1 - p/100), the three upper bounds by (1 + p/100).
EveryRetryUsesCallerIncrement ==
    \A k \in 2..Len(Invocations) :
        LET prev == Invocations[k - 1]
            next == Invocations[k]
            p == CallerIncrement
        IN  /\ next.den = prev.den * 100
            /\ next.min_target = prev.min_target * (100 - p)
            /\ next.max_target = prev.max_target * (100 + p)
            /\ next.max_cost = prev.max_cost * (100 + p)
            /\ next.max_total_cost = prev.max_total_cost * (100 + p)

\* the same for the first retry alone
FirstRetryUsesCallerIncrement ==
    Len(Invocations) >= 2 =>
        Invocations[2] = RelaxedParams(Invocations[1], CallerIncrement)

(***************************************************************************)
(* Further properties of the planning flows.                               *)
(***************************************************************************)
\* the search of a flow of min_distance_flow.py has ended without a
\* feasible solve, and the flow has ended
FlowEndedWithoutSolution ==
    /\ flow \in {"basic_min_distance_flow", "recursive_min_distance_flow"}
    /\ flow_pc = "done"
    /\ pc = "done"
    /\ result = None

\* C25: a flow whose solve (or whose relaxation search) ends without a
\* feasible assignment does not raise: it returns a no-solution outcome,
\* which recursive_min_distance_flow pairs with the empty parameter set.
InfeasibilityIsReturnedNotRaised ==
    FlowEndedWithoutSolution =>
        /\ flow_result # Raised
        /\ flow = "recursive_min_distance_flow" =>
              flow_result.params = NoParams

(***************************************************************************)
(* Further properties of the Google provider.                              *)
(***************************************************************************)
\* response k is OK as a whole and has an element that is not
HasFailedElement(k) ==
    /\ responses[k].status = "OK"
    /\ \E i \in 1..Len(responses[k].rows) :
          \E j \in 1..Len(responses[k].rows[i]) :
              responses[k].rows[i][j].status # "OK"

\* C26: the parse of an OK response with an element that is not OK does not
\* raise: it gives a frame in which that cell is unknown in its value
\* columns and every other cell has the provider's values, each under its
\* own origin and destination id.
FailedElementIsAbsorbed ==
    \A k \in 1..Len(responses) :
        HasFailedElement(k) =>
            /\ k <= Len(parsed_dfs)
            /\ parsed_dfs[k].has_ids
            /\ LET orig_ids == Take(get_ids(enum_locations),
                                    requests[k].orig_idx)
                   dest_ids == Take(get_ids(target_locations),
                                    requests[k].dest_idx)
               IN  \A i \in 1..Len(orig_ids) : \A j \in 1..Len(dest_ids) :
                      LET el == responses[k].rows[i][j]
                          row == parsed_dfs[k].rows[
                                     (i - 1) * Len(dest_ids) + j]
                      IN  /\ row.orig_id = orig_ids[i]
                          /\ row.dest_id = dest_ids[j]
                          /\ row.distance =
                                IF el.status = "OK" THEN el.distance ELSE NaN
                          /\ row.duration =
                                IF el.status = "OK" THEN el.duration ELSE NaN

(***************************************************************************)
(* Properties of the two concurrent fan-outs.                              *)
(***************************************************************************)
\* get_enum_target_osrm_matrix_async has ended
AsyncMatrixEnded == provider = "osrm_async" /\ pc = "done"

\* the row of the matrix for the target at position i: the distances in km
\* the service knows from that target to the enumerators, or unknown cells
\* when the response to its request had no distances
RowIsOfTarget(row, i) ==
    \/ \A j \in 1..Len(enum_locations) : row[j] = NaN
    \/ \A j \in 1..Len(enum_locations) :
          row[j] = OsrmMetres(target_locations[i].lat,
                              enum_locations[j].lat) \div 1000

\* C27: whatever the order in which the requests complete, row i of the
\* asynchronous OSRM matrix is the answer to the request of target i, the
\* visit ranks of an enumerator are those of the frame made from its own
\* trip response, the plan is sorted by enumerator and visit rank, and
\* nothing is aggregated before every task has completed.
CompletionOrderDoesNotMatter ==
    /\ (provider = "osrm_async" /\ pending # {}) => matrix_df = None
    /\ (AsyncMatrixEnded /\ matrix_df # Raised) =>
          /\ pending = {}
          /\ matrix_df.index = get_ids(target_locations)
          /\ \A i \in 1..Len(target_locations) :
                RowIsOfTarget(matrix_df.values[i], i)
    /\ (pc = "rank" /\ trip_pending # {}) => visit_plan = None
    /\ RankReturned =>
          /\ \A e \in GroupKeys(assignment_df) :
                LET own == get_visit_order_for_enum(
                               GroupOf(assignment_df, e), trip_responses[e])
                    g == PlanRowsOf(e)
                IN  /\ Len(g) = Len(own)
                    /\ \A i \in 1..Len(own) :
                          /\ g[i].target_id = own[i].target_id
                          /\ g[i].target_visit_order
                                = own[i].target_visit_order
                          /\ g[i].distance_to_next_in_km
                                = own[i].distance_to_next_in_km
          /\ \A k \in 1..(Len(visit_plan) - 1) :
                KeyBefore(ByEnumThenVisitOrder(visit_plan)[k],
                          ByEnumThenVisitOrder(visit_plan)[k + 1])

\* a matrix with all its rows known whose requests completed in the
\* reverse of the order of the targets
WitnessCompletionOrderDoesNotMatter ==
    /\ AsyncMatrixEnded
    /\ matrix_df # Raised
    /\ completed = [k \in 1..NTarget |-> NTarget + 1 - k]
    /\ \A i \in 1..NTarget : \A j \in 1..NEnum : matrix_df.values[i][j] # NaN
    /\ get_ids(target_locations)[1] # 1

\* a visit plan for two enumerators of which the second was answered first
PlanCompletedOutOfOrder ==
    /\ RankReturned
    /\ Len(trip_completed) = 2
    /\ trip_completed[1] > trip_completed[2]

\* the units of work that got an unusable response
FailedRows == {i \in 1..Len(rows) : rows[i] = <<>>}

FailedTrips ==
    {e \in DOMAIN trip_responses :
        /\ trip_responses[e] # <<>>
        /\ trip_responses[e].status # "Ok"}

\* add_visit_order has ended, with a plan or with an exception
RankEnded == pc = "done" /\ provider = ""

\* C28: a unit of work that gets an unusable response degrades alone.  A
\* target whose response has no distances leaves unknown cells in its row
\* while the matrix is returned with the rows of the other targets; an
\* enumerator whose trip request fails does not end the call: no task of
\* another enumerator is left unfinished and the plan is returned.
FailuresAreIsolated ==
    /\ (AsyncMatrixEnded /\ FailedRows # 1..Len(rows)) =>
          /\ matrix_df # Raised
          /\ \A i \in 1..Len(rows) : \A j \in 1..Len(enum_locations) :
                matrix_df.values[i][j] =
                    IF i \in FailedRows THEN NaN
                    ELSE OsrmMetres(target_locations[i].lat,
                                    enum_locations[j].lat) \div 1000
    /\ (/\ RankEnded
        /\ FailedTrips # {}
        /\ GroupKeys(assignment_df) \ FailedTrips # {}) =>
          /\ trip_pending \ FailedTrips = {}
          /\ RankReturned

\* the part of C28 about the rows of the asynchronous OSRM matrix
FailedRowsAreIsolated ==
    (AsyncMatrixEnded /\ FailedRows # 1..Len(rows)) =>
        /\ matrix_df # Raised
        /\ \A i \in FailedRows : \A j \in 1..Len(enum_locations) :
              matrix_df.values[i][j] = NaN

\* the computed cost matrix has no unknown cell
NoUnknownCells == \A i \in Targets : \A j \in Enums : cost_matrix[i][j] # NaN

\* C29: in every solver attempt of a search started by a recursive flow on
\* a cost matrix without unknown cells, each target has an enumerator whose
\* cost is at most the max_cost of that attempt.
EveryTargetKeepsASelectableEnum ==
    (CostComputed /\ flow \in RecursiveFlows /\ NoUnknownCells) =>
        \A k \in 1..Len(Invocations) :
            \A i \in Targets :
                \E j \in Enums :
                    RatioLeq(cost_matrix[i][j], 1,
                             Invocations[k].max_cost, Invocations[k].den)

\* a search of a recursive flow, called with a max_distance below a positive
\* floor, that has retried with a relaxed max_cost
WitnessEveryTargetKeepsASelectableEnum ==
    /\ CostComputed
    /\ flow \in RecursiveFlows
    /\ NoUnknownCells
    /\ flow_args.max_distance < FeasibilityFloor(cost_matrix)
    /\ Len(attempts) >= 2
    /\ attempts[2].max_cost > attempts[1].max_cost * 100

====
